---- MODULE Spec2Model ----
(***************************************************************************)
(* The conversation dispatcher of app/internal/services/fsm.py             *)
(* (FSMService) together with the collaborators it awaits: the Redis       *)
(* session store, the catalog and notes services, the OpenAI service and   *)
(* the Telegram client.  One action per awaited call of process_update;    *)
(* the synchronous code between two awaits belongs to the action of the    *)
(* await that precedes it.                                                 *)
(*                                                                         *)
(* Strings of the source that are not ASCII are transliterated, the        *)
(* original is quoted next to each.                                        *)
(***************************************************************************)
EXTENDS Integers, Sequences, FiniteSets, TLC

\* ------------------------------------------------------------------ bounds
MaxPrograms == 2        \* rows of supported_programms
MaxNotes == 2           \* rows of user_specifics, over all users

\* ------------------------------------------------------------------ values
Users == {1, 2}         \* chat / sender identifiers (pydantic.PositiveInt)
NoId == 0               \* Message.from_ is None
Procs == {"w1", "w2"}   \* concurrent webhook requests (FastAPI tasks)

NoText == "<None>"      \* Message.text is None
TEXT_START == "/start"
TEXT_QUESTION == "Zadat vopros o programme"       \* "❓ Задать вопрос о программе"
TEXT_RECOMMENDATION == "Poluchit rekommendaciyu"  \* "❗️ Получить рекоммендацию"
TEXT_MAIN_MENU == "Vernutsya v glavnoe menyu"     \* "Вернуться в главное меню"
TriggerTexts == {TEXT_START, TEXT_QUESTION, TEXT_RECOMMENDATION, TEXT_MAIN_MENU}
FreeTextsOrdered == <<"ta", "tb">>                 \* any other non-empty text, in collation order
FreeTexts == {FreeTextsOrdered[i] : i \in 1..Len(FreeTextsOrdered)}
MessageTexts == TriggerTexts \cup FreeTexts \cup {"", NoText}

\* States (app/pkg/models/app/fsm): the values stored in the "state" field.
MAIN_MENU == "main_menu"
QUESTIONS == "questions"
RECOMMENDATION == "recommendation"
States == {MAIN_MENU, QUESTIONS, RECOMMENDATION}
NoField == "<absent>"   \* the hash has no "state" field
Unparseable == "bogus"  \* a "state" value outside the enumeration
StoredStates == States \cup {NoField, Unparseable}

\* Update: update_id and the fields of the request model the dispatcher reads.
\* Telegram delivers an update again, under the same update_id, when the
\* webhook did not answer it.
UpdateIds == {1, 2}
NoMessageUpdate ==
    [update_id |-> 1, has_message |-> FALSE, from_ |-> NoId, chat |-> NoId, text |-> NoText]
\* (from_, chat) of the messages delivered: private chats (sender = chat),
\* a group (sender differs from the chat), channels (no sender).
Senders == {<<1, 1>>, <<2, 2>>, <<2, 1>>, <<NoId, 1>>, <<NoId, 2>>}
Updates ==
    {NoMessageUpdate} \cup
    {[update_id |-> 1, has_message |-> TRUE, from_ |-> s[1], chat |-> s[2], text |-> t] :
        s \in Senders, t \in MessageTexts}
\* Request bodies that Update(**update) rejects: update_id, the one required
\* field of Update, is missing.
NoUpdateId == 0
InvalidPayloads ==
    {[NoMessageUpdate EXCEPT !.update_id = NoUpdateId],
     [update_id |-> NoUpdateId, has_message |-> TRUE, from_ |-> 1, chat |-> 1,
      text |-> TEXT_START]}
\* One private chat, with the update_id told apart: what a redelivery needs.
UpdatesOfOneChat ==
    {[update_id |-> i, has_message |-> TRUE, from_ |-> 1, chat |-> 1, text |-> t] :
        i \in UpdateIds, t \in TriggerTexts \cup {FreeTextsOrdered[1]}}

\* The X-Telegram-Bot-Api-Secret-Token header of a webhook request.
SECRET_TOKEN == "secret"    \* settings.TELEGRAM.SECRET_TOKEN
NoHeader == "<no header>"   \* request.headers.get(...) is None
Headers == {SECRET_TOKEN, "guess", NoHeader}

\* The supported_programms table: program i has name and website_url.
Program(i) == [name |-> "program" \o ToString(i), website_url |-> "https://" \o ToString(i)]
Catalogs == {[i \in 1..n |-> Program(i)] : n \in 0..MaxPrograms}

\* What the completion model may answer.
Answers == {"answer"}
Recommendations ==
    {[recommendation |-> "recommendation", recommended_program |-> n] :
        n \in {Program(1).name, "unlisted"}}

VARIABLES
    store,      \* Redis: user id -> hash (fields "state" and any other field)
    notes,      \* user_specifics: user id -> bag of note texts
    programs,   \* supported_programms, in the order read_all returns
    call        \* per request: the process_update invocation in flight

vars == <<store, notes, programs, call>>

\* ------------------------------------------------------------ local state
EmptyHash == [state |-> NoField, extra |-> FALSE]
NoneState == [is_none |-> TRUE, state |-> NoField]
NoResponse == [recommendation |-> "", recommended_program |-> ""]
NoNotes == [t \in FreeTexts |-> 0]

Idle ==
    [pc |-> "idle", header |-> NoHeader, update |-> NoMessageUpdate, state |-> NoneState,
     function |-> "none", phase |-> "try", responses |-> <<>>, result |-> <<>>,
     returned |-> FALSE, raised |-> <<>>, trace |-> <<>>,
     supported_programs |-> <<>>, user_specifics |-> <<>>,
     specifics |-> <<>>, answer |-> "",
     response |-> NoResponse,
     before |-> [hash |-> EmptyHash, notes |-> NoNotes],
     previous |-> [text |-> NoText, id |-> NoId, state |-> NoField, update_id |-> 0,
                   function |-> "none", all_ok |-> FALSE, notes |-> NoNotes]]

NotesCount ==
    LET total[S \in SUBSET (Users \X FreeTexts)] ==
            IF S = {} THEN 0
            ELSE LET e == CHOOSE e \in S : TRUE
                 IN notes[e[1]][e[2]] + total[S \ {e}]
    IN total[Users \X FreeTexts]

\* Variant: the chat id is used even when the message has a sender.
ClientIdOfChat(update) == update.chat

\* Variant: one key for everybody.
ClientIdShared(update) == 1

\* client_id = update.message.from_.id if update.message.from_ else
\* update.message.chat.id
ClientId(update) == IF update.from_ # NoId THEN update.from_ ELSE update.chat

\* ---------------------------------------------------------- the webhook
\* Variant: the dependency is not declared on the router, nothing is checked.
token_based_verification_absent(header) == "ok"

\* token_based_verification, the dependency of webhooks_router: the exception
\* it raises, or "ok"
token_based_verification(header) ==
    IF header # SECRET_TOKEN THEN "InvalidSecretToken" ELSE "ok"

\* --------------------------------------------------------------- routing
StateInformations ==
    {NoneState} \cup {[is_none |-> FALSE, state |-> s] : s \in States \cup {NoField}}

\* Variant: on a validation error a record without a state is returned.
ParseStateKeepsRecord(hash) ==
    IF hash = EmptyHash THEN NoneState
    ELSE IF hash.state = Unparseable THEN [is_none |-> FALSE, state |-> NoField]
    ELSE [is_none |-> FALSE, state |-> hash.state]

\* FSMService.get_client_state_information, after hgetall returned `hash`
ParseState(hash) ==
    IF hash = EmptyHash THEN NoneState
    ELSE IF hash.state = Unparseable THEN NoneState   \* pydantic.ValidationError
    ELSE [is_none |-> FALSE, state |-> hash.state]

\* Variant: every update with a message is classified as text.
determine_update_type_any_message(update) ==
    IF update.has_message THEN "text" ELSE "ValueError"

\* FSMService.__determine_update_type: "text" or the exception it raises
determine_update_type(update) ==
    IF update.has_message /\ update.text \notin {NoText, ""}
    THEN "text" ELSE "ValueError"

text_routing ==
    [t \in TriggerTexts |->
        [handler |-> CASE t = TEXT_START -> "start_command"
                       [] t = TEXT_QUESTION -> "question_about_program"
                       [] t = TEXT_RECOMMENDATION -> "get_recommendation"
                       [] t = TEXT_MAIN_MENU -> "return_to_main_menu",
         validator |-> [s \in StateInformations |-> TRUE]]]

\* Variant: the two state handlers are registered under each other's state.
state_routing_swapped ==
    [s \in {QUESTIONS, RECOMMENDATION} |->
        [handler |-> IF s = QUESTIONS THEN "recommendation" ELSE "question",
         validator |-> [i \in StateInformations |-> TRUE]]]

\* Variant: the main menu has a state handler too, the question handler.
state_routing_main_menu ==
    [s \in {MAIN_MENU, QUESTIONS, RECOMMENDATION} |->
        [handler |-> IF s = RECOMMENDATION THEN "recommendation" ELSE "question",
         validator |-> [i \in StateInformations |-> TRUE]]]

state_routing ==
    [s \in {QUESTIONS, RECOMMENDATION} |->
        [handler |-> IF s = QUESTIONS THEN "question" ELSE "recommendation",
         validator |-> [i \in StateInformations |-> TRUE]]]

\* Variant: the state table is consulted before the text table.
process_message_update_state_first(state, text) ==
    IF ~state.is_none /\ state.state \in DOMAIN state_routing
    THEN state_routing[state.state].handler
    ELSE IF text \in DOMAIN text_routing
    THEN text_routing[text].handler
    ELSE IF state.is_none THEN "AttributeError"
    ELSE "return_to_main_menu"

\* FSMService.__process_message_update after the state was read: the handler
\* selected, or the exception raised by state.state when state is None.
process_message_update(state, text) ==
    IF text \in DOMAIN text_routing
    THEN IF text_routing[text].validator[state]
         THEN text_routing[text].handler
         ELSE "return_to_main_menu"
    ELSE IF state.is_none THEN "AttributeError"
    ELSE IF state.state \in DOMAIN state_routing
            /\ state_routing[state.state].validator[state]
         THEN state_routing[state.state].handler
         ELSE "return_to_main_menu"

\* Variant: the handlers that ask for input reply before they store.
FirstAwaitReplies(handler) ==
    CASE handler = "start_command" -> "start_delete"
      [] handler = "return_to_main_menu" -> "menu_hmset"
      [] handler = "question_about_program" -> "qap_send"
      [] handler = "get_recommendation" -> "grec_send"
      [] handler = "question" -> "q_send_wait"
      [] handler = "recommendation" -> "rec_create"

\* The first await of each handler.
FirstAwait(handler) ==
    CASE handler = "start_command" -> "start_delete"
      [] handler = "return_to_main_menu" -> "menu_hmset"
      [] handler = "question_about_program" -> "qap_hmset"
      [] handler = "get_recommendation" -> "grec_hmset"
      [] handler = "question" -> "q_send_wait"
      [] handler = "recommendation" -> "rec_create"

\* ------------------------------------------------------------- messages
\* reply_markup: the keyboard is a list of rows, each row a list of buttons.
NoMarkup == [type |-> "none", keyboard |-> <<>>]
\* ReplyKeyboardMarkup(keyboard=[[KeyboardButton(text=...)], ...])
ReplyKeyboard(texts) ==
    [type |-> "reply",
     keyboard |-> [i \in 1..Len(texts) |-> <<[text |-> texts[i], url |-> ""]>>]]
\* Variant: the last program gets no button.
InlineKeyboardDropsLast(progs) ==
    [type |-> "inline",
     keyboard |-> [i \in 1..(Len(progs) - 1) |->
                    <<[text |-> progs[i].name, url |-> progs[i].website_url]>>]]
\* InlineKeyboardMarkup(inline_keyboard=[[InlineKeyboardButton(text=program.name,
\* url=program.website_url)] for program in supported_programs])
InlineKeyboard(progs) ==
    [type |-> "inline",
     keyboard |-> [i \in 1..Len(progs) |->
                    <<[text |-> progs[i].name, url |-> progs[i].website_url]>>]]
MainMenuKeyboard == ReplyKeyboard(<<TEXT_QUESTION, TEXT_RECOMMENDATION>>)
ReturnKeyboard == ReplyKeyboard(<<TEXT_MAIN_MENU>>)

GREETING == "Privet!"                     \* "Привет! Я помогу тебе с выбором программы ..."
MENU == "S chem ya mogu pomoch?"          \* "С чем я могу помочь?"
ASK_QUESTION == "Zadaj svoj vopros"       \* "Задай свой вопрос о программе, ..."
ASK_SPECIFICS == "Rasskazhi mne pro sebya" \* "Расскажи мне про себя ..."
WAIT_ANSWER == "Pozhalujsta, podozhdi, ya ishu otvet"        \* "Пожалуйста, подожди, я ищу ответ ..."
WAIT_PROGRAM == "Pozhalujsta, podozhdi, ya ishu programmu"   \* "Пожалуйста, подожди, я ищу подходящую ..."
RECOMMENDED == "Rekomendovannaya programma: "                \* "Рекомендованная программа: "

\* TelegramAPISendMessageResponse of a send_message that did not raise
SendResult(chat_id, text, markup, ok) ==
    [ok |-> ok, chat_id |-> chat_id, text |-> text, reply_markup |-> markup]

\* ----------------------------------------------------------- exceptions
Called(c, op, id, arg, out) ==
    [c EXCEPT !.trace = Append(@, [op |-> op, id |-> id, arg |-> arg, out |-> out])]

Finished(c, result) ==
    [c EXCEPT !.pc = "done", !.result = result, !.returned = TRUE]

\* Variants of Raise with one defect each.
\* The inner handler of the except block is missing: the exception escapes.
RaisePropagates(c, exc) ==
    IF c.phase = "try"
    THEN IF c.update.has_message
         THEN [c EXCEPT !.phase = "except", !.raised = Append(@, exc),
                        !.pc = "menu_hmset", !.responses = <<>>]
         ELSE [c EXCEPT !.phase = "except", !.pc = "done",
                        !.raised = Append(Append(@, exc), "AttributeError")]
    ELSE [c EXCEPT !.raised = Append(@, exc), !.pc = "done"]

\* The responses the failed handler had collected are returned as well.
RaiseKeepsResponses(c, exc) ==
    IF c.phase = "try"
    THEN IF c.update.has_message
         THEN [c EXCEPT !.phase = "except", !.raised = Append(@, exc),
                        !.pc = "menu_hmset"]
         ELSE Finished([c EXCEPT !.phase = "except",
                                 !.raised = Append(Append(@, exc), "AttributeError")],
                       <<>>)
    ELSE Finished([c EXCEPT !.raised = Append(@, exc)], <<>>)

\* The failure of the default handler is reported as a failed send.
RaiseReportsFailure(c, exc) ==
    IF c.phase = "try"
    THEN IF c.update.has_message
         THEN [c EXCEPT !.phase = "except", !.raised = Append(@, exc),
                        !.pc = "menu_hmset", !.responses = <<>>]
         ELSE Finished([c EXCEPT !.phase = "except",
                                 !.raised = Append(Append(@, exc), "AttributeError")],
                       <<>>)
    ELSE Finished([c EXCEPT !.raised = Append(@, exc)],
                  <<SendResult(ClientId(c.update), MENU, MainMenuKeyboard, FALSE)>>)

\* The default handler is attempted once more after it failed.
RaiseRetries(c, exc) ==
    IF c.phase = "try"
    THEN IF c.update.has_message
         THEN [c EXCEPT !.phase = "except", !.raised = Append(@, exc),
                        !.pc = "menu_hmset", !.responses = <<>>]
         ELSE Finished([c EXCEPT !.phase = "except",
                                 !.raised = Append(Append(@, exc), "AttributeError")],
                       <<>>)
    ELSE IF Len(c.raised) < 2
         THEN [c EXCEPT !.raised = Append(@, exc), !.pc = "menu_hmset",
                        !.responses = <<>>]
         ELSE Finished([c EXCEPT !.raised = Append(@, exc)], <<>>)

\* The fallback is the /start handler.
RaiseRestarts(c, exc) ==
    IF c.phase = "try"
    THEN IF c.update.has_message
         THEN [c EXCEPT !.phase = "except", !.raised = Append(@, exc),
                        !.pc = "start_delete", !.responses = <<>>]
         ELSE Finished([c EXCEPT !.phase = "except",
                                 !.raised = Append(Append(@, exc), "AttributeError")],
                       <<>>)
    ELSE Finished([c EXCEPT !.raised = Append(@, exc)], <<>>)

\* The handler's exception is swallowed: it returns what it has collected.
RaiseSwallows(c, exc) ==
    IF c.phase = "try" /\ c.function # "none"
    THEN Finished([c EXCEPT !.raised = Append(@, exc)], c.responses)
    ELSE IF c.phase = "try"
    THEN IF c.update.has_message
         THEN [c EXCEPT !.phase = "except", !.raised = Append(@, exc),
                        !.pc = "menu_hmset", !.responses = <<>>]
         ELSE Finished([c EXCEPT !.phase = "except",
                                 !.raised = Append(Append(@, exc), "AttributeError")],
                       <<>>)
    ELSE Finished([c EXCEPT !.raised = Append(@, exc)], <<>>)

\* No fallback: any exception ends the invocation with the empty list.
RaiseNoRecovery(c, exc) ==
    Finished([c EXCEPT !.phase = "except", !.raised = Append(@, exc)], <<>>)

\* History kept for the properties: `trace` lists the awaited collaborator
\* calls of the invocation with their outcome, `raised` the exceptions
\* raised in it, `before` the client's hash and notes when it began.
\*
\* An exception `exc` raised at the current point of process_update.  In the
\* try block it is caught and __process_return_to_main_menu runs up to its
\* first await (its client_id expression raises when there is no message);
\* in the except block it is caught and the result is the empty list.
Raise(c, exc) ==
    IF c.phase = "try"
    THEN IF c.update.has_message
         THEN [c EXCEPT !.phase = "except", !.raised = Append(@, exc),
                        !.pc = "menu_hmset", !.responses = <<>>]
         ELSE Finished([c EXCEPT !.phase = "except",
                                 !.raised = Append(Append(@, exc), "AttributeError")],
                       <<>>)
    ELSE Finished([c EXCEPT !.raised = Append(@, exc)], <<>>)

\* ------------------------------------------------------- collaborators
\* Variant: the mapping is empty, nothing is written.
hmset_nothing(hash, state) == hash

\* Variant: HSETNX, a field that exists is kept.
hmset_if_absent(hash, state) ==
    IF hash.state = NoField THEN [hash EXCEPT !.state = state] ELSE hash

\* RedisClient.hmset: HSET key mapping, the fields of `mapping` are overwritten
hmset(hash, state) == [hash EXCEPT !.state = state]

\* Variant: DEL is not issued, the hash is left as it was.
delete_skipped(hash) == hash

\* RedisClient.delete: DEL key, the hash and all its fields are gone
delete(hash) == EmptyHash

\* Variant: an upsert, a text the user already has is not stored again.
create_upsert(bag, specific) == [bag EXCEPT ![specific] = 1]

\* UserSpecificsRepository.create: one more row (user_id, specific)
create(bag, specific) == [bag EXCEPT ![specific] = @ + 1]

\* Variant: select distinct, a text stored twice is listed once.
read_listed_distinct(bag) ==
    LET rows[i \in 0..Len(FreeTextsOrdered)] ==
            IF i = 0 THEN <<>>
            ELSE rows[i - 1] \o (IF bag[FreeTextsOrdered[i]] > 0
                                 THEN <<FreeTextsOrdered[i]>> ELSE <<>>)
    IN rows[Len(FreeTextsOrdered)]

\* UserSpecificsRepository.read_listed: the user's rows, order by specific
read_listed(bag) ==
    LET rows[i \in 0..Len(FreeTextsOrdered)] ==
            IF i = 0 THEN <<>>
            ELSE rows[i - 1] \o [k \in 1..bag[FreeTextsOrdered[i]] |-> FreeTextsOrdered[i]]
    IN rows[Len(FreeTextsOrdered)]

\* What a repository read hands to the service: its rows, the EmptyResult
\* its response collector raises when the query matched no row, or any
\* other exception (driver, connection).
RepositoryOutcomes(rows) ==
    (IF rows = <<>> THEN {"EmptyResult"} ELSE {"rows"}) \cup {"error"}

\* Variant: EmptyResult is not caught by the service.
get_programs_uncaught(outcome, rows) ==
    [raised |-> outcome # "rows", value |-> rows]

\* SupportedProgrammsService.get_programs: EmptyResult becomes the empty list
get_programs(outcome, rows) ==
    IF outcome = "EmptyResult" THEN [raised |-> FALSE, value |-> <<>>]
    ELSE [raised |-> outcome # "rows", value |-> rows]

\* UserSpecificsService.get_user_specifics: EmptyResult becomes the empty list
get_user_specifics(outcome, rows) ==
    IF outcome = "EmptyResult" THEN [raised |-> FALSE, value |-> <<>>]
    ELSE [raised |-> outcome # "rows", value |-> rows]

\* An awaited call `op` raises.
FailsRollsBack(p, op, arg) ==
    /\ call' = [call EXCEPT ![p] =
                    Raise(Called(call[p], op, ClientId(call[p].update), arg, "raise"), op)]
    /\ notes' = [notes EXCEPT ![ClientId(call[p].update)] = call[p].before.notes]
    /\ UNCHANGED <<store, programs>>

Fails(p, op, arg) ==
    /\ call' = [call EXCEPT ![p] =
                    Raise(Called(call[p], op, ClientId(call[p].update), arg, "raise"), op)]
    /\ UNCHANGED <<store, notes, programs>>

\* An awaited call `op` returns and the handler goes on to `next`.
Goes(c, op, arg, next) ==
    [Called(c, op, ClientId(c.update), arg, "ok") EXCEPT !.pc = next]

\* send_message returned `ok` (a response with or without a result).
Sent(c, text, ok) ==
    Called(c, "send_message", ClientId(c.update), text, IF ok THEN "ok" ELSE "not_ok")

\* The collaborator behind each awaited call.
StoreOps == {"hgetall", "hmset", "delete"}
MessagingOps == {"send_message"}
CatalogOps == {"get_programs"}
NotesOps == {"create_user_specific", "get_user_specifics"}
AnsweringOps == {"answer_question", "provide_recommendation"}

\* Every call of the invocation to a collaborator in `ops` succeeded so far
\* (a send_message that returns ok = false has not succeeded).
Succeed(c, ops) == \A i \in DOMAIN c.trace : c.trace[i].op \in ops => c.trace[i].out = "ok"
AllSucceed(c) ==
    Succeed(c, StoreOps \cup MessagingOps \cup CatalogOps \cup NotesOps \cup AnsweringOps)

\* Update(**update) in the route: pydantic raises ValidationError unless the
\* body has the required update_id.
ValidatesAnything(payload) == TRUE

Validates(payload) == payload.update_id # NoUpdateId

\* ---------------------------------------------------------------- actions
\* A request reaches the webhook route: its dependency runs first.  When it
\* raises, FastAPI answers 403 and the endpoint is not called.
TokenBasedVerification(p, header) ==
    /\ call[p].pc = "idle"
    /\ call' = [call EXCEPT ![p] =
            IF token_based_verification(header) = "ok"
            THEN [call[p] EXCEPT !.pc = "verified", !.header = header]
            ELSE [call[p] EXCEPT !.pc = "rejected", !.header = header,
                                 !.raised = <<token_based_verification(header)>>]]
    /\ UNCHANGED <<store, notes, programs>>

\* Variant: an update whose update_id is that of the request before is
\* acknowledged without being processed.
ProcessUpdateDeduplicates(p, update) ==
    /\ call[p].pc = "verified"
    /\ Validates(update)
    /\ NotesCount < MaxNotes
    /\ LET c == [Idle EXCEPT
                    !.header = call[p].header,
                    !.update = update,
                    !.previous = call[p].previous,
                    !.before = IF update.has_message
                               THEN [hash |-> store[ClientId(update)],
                                     notes |-> notes[ClientId(update)]]
                               ELSE @]
       IN call' = [call EXCEPT ![p] =
                IF update.update_id = call[p].previous.update_id
                THEN Finished(c, <<>>)
                ELSE IF determine_update_type(update) = "text"
                THEN [c EXCEPT !.pc = "hgetall"]
                ELSE Raise(c, determine_update_type(update))]
    /\ UNCHANGED <<store, notes, programs>>

\* handle_client_bot_update calls process_update(update): the update is
\* classified and, for a text message, the state is about to be read.
ProcessUpdate(p, update) ==
    /\ call[p].pc = "verified"
    /\ Validates(update)
    /\ NotesCount < MaxNotes
    /\ LET c == [Idle EXCEPT
                    !.header = call[p].header,
                    !.update = update,
                    !.previous = call[p].previous,
                    !.before = IF update.has_message
                               THEN [hash |-> store[ClientId(update)],
                                     notes |-> notes[ClientId(update)]]
                               ELSE @]
       IN call' = [call EXCEPT ![p] =
                IF determine_update_type(update) = "text"
                THEN [c EXCEPT !.pc = "hgetall"]
                ELSE Raise(c, determine_update_type(update))]
    /\ UNCHANGED <<store, notes, programs>>

\* get_client_state_information, then the routing and the selected handler
\* up to its first await.
GetClientState(p) ==
    /\ call[p].pc = "hgetall"
    /\ \/ LET c == call[p]
              state == ParseState(store[ClientId(c.update)])
              function == process_message_update(state, c.update.text)
              read == [Called(c, "hgetall", ClientId(c.update),
                              store[ClientId(c.update)].state, "ok")
                          EXCEPT !.state = state]
          IN /\ call' = [call EXCEPT ![p] =
                    IF function = "AttributeError"
                    THEN Raise(read, function)
                    ELSE [read EXCEPT !.function = function,
                                      !.pc = FirstAwait(function)]]
             /\ UNCHANGED <<store, notes, programs>>
       \/ Fails(p, "hgetall", "")

\* __process_start_command
StartDelete(p) ==
    /\ call[p].pc = "start_delete"
    /\ \/ /\ store' = [store EXCEPT ![ClientId(call[p].update)] = delete(@)]
          /\ call' = [call EXCEPT ![p] = Goes(call[p], "delete", "", "start_hmset")]
          /\ UNCHANGED <<notes, programs>>
       \/ Fails(p, "delete", "")

StartHmset(p) ==
    /\ call[p].pc = "start_hmset"
    /\ \/ /\ store' = [store EXCEPT ![ClientId(call[p].update)] = hmset(@, MAIN_MENU)]
          /\ call' = [call EXCEPT ![p] = Goes(call[p], "hmset", MAIN_MENU, "start_get_programs")]
          /\ UNCHANGED <<notes, programs>>
       \/ Fails(p, "hmset", MAIN_MENU)

StartGetPrograms(p) ==
    /\ call[p].pc = "start_get_programs"
    /\ \E outcome \in RepositoryOutcomes(programs) :
        IF get_programs(outcome, programs).raised
        THEN Fails(p, "get_programs", outcome)
        ELSE /\ call' = [call EXCEPT ![p] =
                    [Goes(call[p], "get_programs", outcome, "start_send") EXCEPT
                        !.supported_programs = get_programs(outcome, programs).value]]
             /\ UNCHANGED <<store, notes, programs>>

StartSend(p) ==
    /\ call[p].pc = "start_send"
    /\ \/ \E ok \in BOOLEAN :
            /\ call' = [call EXCEPT ![p] =
                    [Sent(call[p], GREETING, ok) EXCEPT
                        !.responses = <<SendResult(ClientId(call[p].update), GREETING,
                                                   InlineKeyboard(call[p].supported_programs), ok)>>,
                        !.pc = "menu_hmset"]]
            /\ UNCHANGED <<store, notes, programs>>
       \/ Fails(p, "send_message", GREETING)

\* __process_return_to_main_menu: as the selected handler, at the end of
\* __process_start_command, and in the except block of process_update
MenuHmset(p) ==
    /\ call[p].pc = "menu_hmset"
    /\ \/ /\ store' = [store EXCEPT ![ClientId(call[p].update)] = hmset(@, MAIN_MENU)]
          /\ call' = [call EXCEPT ![p] = Goes(call[p], "hmset", MAIN_MENU, "menu_send")]
          /\ UNCHANGED <<notes, programs>>
       \/ Fails(p, "hmset", MAIN_MENU)

MenuSend(p) ==
    /\ call[p].pc = "menu_send"
    /\ \/ \E ok \in BOOLEAN :
            /\ call' = [call EXCEPT ![p] =
                    Finished(Sent(call[p], MENU, ok),
                             @.responses \o <<SendResult(ClientId(call[p].update), MENU,
                                                         MainMenuKeyboard, ok)>>)]
            /\ UNCHANGED <<store, notes, programs>>
       \/ Fails(p, "send_message", MENU)

\* __process_question_about_program
QuestionAboutProgramHmset(p) ==
    /\ call[p].pc = "qap_hmset"
    /\ \/ /\ store' = [store EXCEPT ![ClientId(call[p].update)] = hmset(@, QUESTIONS)]
          /\ call' = [call EXCEPT ![p] = Goes(call[p], "hmset", QUESTIONS, "qap_send")]
          /\ UNCHANGED <<notes, programs>>
       \/ Fails(p, "hmset", QUESTIONS)

QuestionAboutProgramSend(p) ==
    /\ call[p].pc = "qap_send"
    /\ \/ \E ok \in BOOLEAN :
            /\ call' = [call EXCEPT ![p] =
                    Finished(Sent(call[p], ASK_QUESTION, ok),
                             <<SendResult(ClientId(call[p].update), ASK_QUESTION,
                                          ReturnKeyboard, ok)>>)]
            /\ UNCHANGED <<store, notes, programs>>
       \/ Fails(p, "send_message", ASK_QUESTION)

\* __process_get_recommendation
GetRecommendationHmset(p) ==
    /\ call[p].pc = "grec_hmset"
    /\ \/ /\ store' = [store EXCEPT ![ClientId(call[p].update)] = hmset(@, RECOMMENDATION)]
          /\ call' = [call EXCEPT ![p] = Goes(call[p], "hmset", RECOMMENDATION, "grec_send")]
          /\ UNCHANGED <<notes, programs>>
       \/ Fails(p, "hmset", RECOMMENDATION)

GetRecommendationSend(p) ==
    /\ call[p].pc = "grec_send"
    /\ \/ \E ok \in BOOLEAN :
            /\ call' = [call EXCEPT ![p] =
                    Finished(Sent(call[p], ASK_SPECIFICS, ok),
                             <<SendResult(ClientId(call[p].update), ASK_SPECIFICS,
                                          ReturnKeyboard, ok)>>)]
            /\ UNCHANGED <<store, notes, programs>>
       \/ Fails(p, "send_message", ASK_SPECIFICS)

\* __process_question
QuestionSendWait(p) ==
    /\ call[p].pc = "q_send_wait"
    /\ \/ \E ok \in BOOLEAN :
            /\ call' = [call EXCEPT ![p] =
                    [Sent(call[p], WAIT_ANSWER, ok) EXCEPT !.pc = "q_get_programs"]]
            /\ UNCHANGED <<store, notes, programs>>
       \/ Fails(p, "send_message", WAIT_ANSWER)

QuestionGetPrograms(p) ==
    /\ call[p].pc = "q_get_programs"
    /\ \E outcome \in RepositoryOutcomes(programs) :
        IF get_programs(outcome, programs).raised
        THEN Fails(p, "get_programs", outcome)
        ELSE /\ call' = [call EXCEPT ![p] =
                    [Goes(call[p], "get_programs", outcome, "q_answer") EXCEPT
                        !.supported_programs = get_programs(outcome, programs).value]]
             /\ UNCHANGED <<store, notes, programs>>

QuestionAnswer(p) ==
    /\ call[p].pc = "q_answer"
    /\ \/ \E answer \in Answers :
            /\ call' = [call EXCEPT ![p] =
                    [Goes(call[p], "answer_question", call[p].update.text, "q_send")
                        EXCEPT !.answer = answer]]
            /\ UNCHANGED <<store, notes, programs>>
       \/ Fails(p, "answer_question", call[p].update.text)

QuestionSend(p) ==
    /\ call[p].pc = "q_send"
    /\ \/ \E ok \in BOOLEAN :
            /\ call' = [call EXCEPT ![p] =
                    Finished(Sent(call[p], call[p].answer, ok),
                             <<SendResult(ClientId(call[p].update), call[p].answer, NoMarkup, ok)>>)]
            /\ UNCHANGED <<store, notes, programs>>
       \/ Fails(p, "send_message", call[p].answer)

\* __process_recommendation
RecommendationCreate(p) ==
    /\ call[p].pc = "rec_create"
    /\ \/ /\ notes' = [notes EXCEPT ![ClientId(call[p].update)] =
                            create(@, call[p].update.text)]
          /\ call' = [call EXCEPT ![p] =
                    Goes(call[p], "create_user_specific", call[p].update.text, "rec_list")]
          /\ UNCHANGED <<store, programs>>
       \/ Fails(p, "create_user_specific", call[p].update.text)

RecommendationList(p) ==
    /\ call[p].pc = "rec_list"
    /\ LET rows == read_listed(notes[ClientId(call[p].update)])
       IN \E outcome \in RepositoryOutcomes(rows) :
            IF get_user_specifics(outcome, rows).raised
            THEN Fails(p, "get_user_specifics", outcome)
            ELSE /\ call' = [call EXCEPT ![p] =
                        [Goes(call[p], "get_user_specifics", outcome, "rec_get_programs")
                            EXCEPT !.user_specifics = get_user_specifics(outcome, rows).value]]
                 /\ UNCHANGED <<store, notes, programs>>

\* get_programs, then the arguments of provide_recommendation are built:
\* [specific.specific for specific in user_specifics]
RecommendationGetPrograms(p) ==
    /\ call[p].pc = "rec_get_programs"
    /\ \E outcome \in RepositoryOutcomes(programs) :
        IF get_programs(outcome, programs).raised
        THEN Fails(p, "get_programs", outcome)
        ELSE /\ call' = [call EXCEPT ![p] =
                    [Goes(call[p], "get_programs", outcome, "rec_recommend") EXCEPT
                        !.supported_programs = get_programs(outcome, programs).value,
                        !.specifics = call[p].user_specifics]]
             /\ UNCHANGED <<store, notes, programs>>

RecommendationProvide(p) ==
    /\ call[p].pc = "rec_recommend"
    /\ \/ \E response \in Recommendations :
            /\ call' = [call EXCEPT ![p] =
                    [Goes(call[p], "provide_recommendation", "", "rec_send_wait")
                        EXCEPT !.response = response]]
            /\ UNCHANGED <<store, notes, programs>>
       \/ Fails(p, "provide_recommendation", "")

RecommendationSendWait(p) ==
    /\ call[p].pc = "rec_send_wait"
    /\ \/ \E ok \in BOOLEAN :
            /\ call' = [call EXCEPT ![p] =
                    [Sent(call[p], WAIT_PROGRAM, ok) EXCEPT !.pc = "rec_send_text"]]
            /\ UNCHANGED <<store, notes, programs>>
       \/ Fails(p, "send_message", WAIT_PROGRAM)

RecommendationSendText(p) ==
    /\ call[p].pc = "rec_send_text"
    /\ \/ \E ok \in BOOLEAN :
            /\ call' = [call EXCEPT ![p] =
                    [Sent(call[p], call[p].response.recommendation, ok) EXCEPT
                        !.responses = <<SendResult(ClientId(call[p].update),
                                            call[p].response.recommendation, NoMarkup, ok)>>,
                        !.pc = "rec_send_program"]]
            /\ UNCHANGED <<store, notes, programs>>
       \/ Fails(p, "send_message", call[p].response.recommendation)

RecommendationSendProgram(p) ==
    /\ call[p].pc = "rec_send_program"
    /\ \/ \E ok \in BOOLEAN :
            /\ call' = [call EXCEPT ![p] =
                    Finished(Sent(call[p], RECOMMENDED \o call[p].response.recommended_program, ok),
                             @.responses \o
                             <<SendResult(ClientId(call[p].update),
                                          RECOMMENDED \o call[p].response.recommended_program,
                                          NoMarkup, ok)>>)]
            /\ UNCHANGED <<store, notes, programs>>
       \/ Fails(p, "send_message", RECOMMENDED \o call[p].response.recommended_program)

\* process_update returned to the route, or the request was refused: the
\* request is over.
\* The route's `except ValidationError: return`: the body is not an Update,
\* the request ends and process_update is not called.
DropInvalidPayload(p, payload) ==
    /\ call[p].pc = "verified"
    /\ ~Validates(payload)
    /\ call' = [call EXCEPT ![p] = [call[p] EXCEPT !.pc = "dropped", !.update = payload]]
    /\ UNCHANGED <<store, notes, programs>>

Return(p) ==
    /\ call[p].pc \in {"done", "rejected", "dropped"}
    /\ call' = [call EXCEPT ![p] = Idle]
    /\ UNCHANGED <<store, notes, programs>>

\* As Return, remembering what the request was and left behind.
ReturnRemember(p) ==
    /\ call[p].pc \in {"done", "rejected"}
    /\ call' = [call EXCEPT ![p] =
            [Idle EXCEPT !.previous =
                IF call[p].pc = "rejected" THEN call[p].previous
                ELSE IF call[p].update.has_message
                   /\ Succeed(call[p], StoreOps \cup MessagingOps)
                THEN [text |-> call[p].update.text,
                      id |-> ClientId(call[p].update),
                      state |-> store[ClientId(call[p].update)].state,
                      update_id |-> call[p].update.update_id,
                      function |-> call[p].function,
                      all_ok |-> AllSucceed(call[p]),
                      notes |-> notes[ClientId(call[p].update)]]
                ELSE Idle.previous]]
    /\ UNCHANGED <<store, notes, programs>>

\* ---------------------------------------------------------- specification
\* Redis and PostgreSQL outlive the process: the hashes found at start are
\* whatever earlier runs or other writers left, the notes table is empty.
Init ==
    /\ store \in [Users -> {[state |-> s, extra |-> FALSE] : s \in StoredStates}]
    /\ notes = [u \in Users |-> NoNotes]
    /\ programs \in Catalogs
    /\ call = [p \in Procs |-> Idle]

Steps(p) ==
    \/ GetClientState(p)
    \/ StartDelete(p) \/ StartHmset(p) \/ StartGetPrograms(p) \/ StartSend(p)
    \/ MenuHmset(p) \/ MenuSend(p)
    \/ QuestionAboutProgramHmset(p) \/ QuestionAboutProgramSend(p)
    \/ GetRecommendationHmset(p) \/ GetRecommendationSend(p)
    \/ QuestionSendWait(p) \/ QuestionGetPrograms(p) \/ QuestionAnswer(p)
    \/ QuestionSend(p)
    \/ RecommendationCreate(p) \/ RecommendationList(p)
    \/ RecommendationGetPrograms(p) \/ RecommendationProvide(p)
    \/ RecommendationSendWait(p) \/ RecommendationSendText(p)
    \/ RecommendationSendProgram(p)

Handler(p) == Steps(p) \/ Return(p)

\* Updates delivered one at a time (the transport serialises delivery, and
\* requests of different clients touch different keys and rows): a request
\* starts when no other is in flight, and one worker serves them all.
Next ==
    \E p \in Procs :
        \/ /\ \A q \in Procs : call[q].pc = "idle"
           /\ p = "w1"
           /\ \E header \in Headers : TokenBasedVerification(p, header)
        \/ \E update \in Updates \cup InvalidPayloads :
                \/ ProcessUpdate(p, update)
                \/ DropInvalidPayload(p, update)
        \/ Handler(p)

Spec == Init /\ [][Next]_vars

\* The same requests, served from a session store that starts empty.
InitEmptyStore ==
    /\ store = [u \in Users |-> EmptyHash]
    /\ notes = [u \in Users |-> NoNotes]
    /\ programs \in Catalogs
    /\ call = [p \in Procs |-> Idle]

SpecEmptyStore == InitEmptyStore /\ [][Next]_vars

\* Two requests in flight at once, the event loop switching between them at
\* every await: worker w1 serves the private chat of user 1, who sends any
\* of the triggers or a free text, and worker w2 that of user 2, who
\* asks for a recommendation and describes themself.
WorkerUser(p) == IF p = "w1" THEN 1 ELSE 2
ConcurrentTexts(p) ==
    IF p = "w1" THEN TriggerTexts \cup {FreeTextsOrdered[1]}
    ELSE {TEXT_RECOMMENDATION, FreeTextsOrdered[1]}
UpdatesOfWorker(p) ==
    {u \in Updates : /\ u.has_message
                     /\ u.from_ = WorkerUser(p) /\ u.chat = WorkerUser(p)
                     /\ u.text \in ConcurrentTexts(p)}

InitConcurrent ==
    /\ store = [u \in Users |-> EmptyHash]
    /\ notes = [u \in Users |-> NoNotes]
    /\ programs = <<Program(1)>>
    /\ call = [p \in Procs |-> Idle]

NextConcurrent ==
    \E p \in Procs :
        \/ TokenBasedVerification(p, SECRET_TOKEN)
        \/ \E update \in UpdatesOfWorker(p) : ProcessUpdate(p, update)
        \/ Handler(p)

SpecConcurrent == InitConcurrent /\ [][NextConcurrent]_vars

\* Telegram delivers updates of one private chat, new ones and ones it has
\* delivered before, one at a time; each request remembers the one before
\* it.
NextRedelivery ==
    \E p \in Procs :
        \/ /\ \A q \in Procs : call[q].pc = "idle"
           /\ p = "w1"
           /\ TokenBasedVerification(p, SECRET_TOKEN)
        \/ \E update \in UpdatesOfOneChat : ProcessUpdate(p, update)
        \/ Steps(p)
        \/ ReturnRemember(p)

SpecRedelivery == InitEmptyStore /\ [][NextRedelivery]_vars

\* One private chat, served one request at a time, whose record at start is
\* anything an earlier run or another writer may have left: absent, any
\* state value, with or without a field other than "state".
UpdatesOfUser1 ==
    {u \in Updates : ~u.has_message \/ (u.from_ = 1 /\ u.chat = 1)}

InitStaleRecord ==
    /\ store \in {[u \in Users |-> IF u = 1 THEN h ELSE EmptyHash] :
                    h \in [state : StoredStates, extra : BOOLEAN]}
    /\ notes = [u \in Users |-> NoNotes]
    /\ programs \in Catalogs
    /\ call = [p \in Procs |-> Idle]

NextOneChat ==
    \E p \in Procs :
        \/ /\ \A q \in Procs : call[q].pc = "idle"
           /\ p = "w1"
           /\ TokenBasedVerification(p, SECRET_TOKEN)
        \/ \E update \in UpdatesOfUser1 \cup InvalidPayloads :
                \/ ProcessUpdate(p, update)
                \/ DropInvalidPayload(p, update)
        \/ Handler(p)

SpecOneChat == InitStaleRecord /\ [][NextOneChat]_vars

\* Text messages from private chats, a group and channels, served one at a
\* time from an empty store.
UpdatesWithText ==
    {u \in Updates : u.has_message /\ u.text \in TriggerTexts \cup {FreeTextsOrdered[1]}}

NextSenders ==
    \E p \in Procs :
        \/ /\ \A q \in Procs : call[q].pc = "idle"
           /\ p = "w1"
           /\ TokenBasedVerification(p, SECRET_TOKEN)
        \/ \E update \in UpdatesWithText : ProcessUpdate(p, update)
        \/ Handler(p)

SpecSenders == InitConcurrent /\ [][NextSenders]_vars

\* The user presses "Вернуться в главное меню" again and again: only that
\* text is delivered, and each request remembers the one before it.
NextMainMenu ==
    \E p \in Procs :
        \/ /\ \A q \in Procs : call[q].pc = "idle"
           /\ p = "w1"
           /\ \E header \in Headers : TokenBasedVerification(p, header)
        \/ \E update \in Updates :
                /\ update.text = TEXT_MAIN_MENU
                /\ ProcessUpdate(p, update)
        \/ GetClientState(p)
        \/ MenuHmset(p)
        \/ MenuSend(p)
        \/ ReturnRemember(p)

SpecMainMenu == Init /\ [][NextMainMenu]_vars

\* Two updates of one private chat served at the same time: the route
\* awaits process_update for each request on its own, with no lock per user,
\* so the awaits of the two handlers interleave freely.  Each worker serves
\* one update; the record of the chat at start is any the store can hold.
SameUserTexts(p) ==
    IF p = "w1" THEN TriggerTexts \cup {FreeTextsOrdered[1]}
    ELSE {TEXT_QUESTION, FreeTextsOrdered[1]}
UpdatesOfSameUser(p) ==
    {u \in UpdatesOfUser1 : u.text \in SameUserTexts(p)}

InitSameUser ==
    /\ store \in {[u \in Users |-> IF u = 1 THEN [state |-> s, extra |-> FALSE]
                                   ELSE EmptyHash] : s \in StoredStates}
    /\ notes = [u \in Users |-> NoNotes]
    /\ programs = <<Program(1)>>
    /\ call = [p \in Procs |-> Idle]

NextSameUser ==
    \E p \in Procs :
        \/ TokenBasedVerification(p, SECRET_TOKEN)
        \/ \E update \in UpdatesOfSameUser(p) : ProcessUpdate(p, update)
        \/ Steps(p)

SpecSameUser == InitSameUser /\ [][NextSameUser]_vars

\* ----------------------------------------------- application lifespan
\* The lifespan of the FastAPI application and the website scraper it starts.
\* The one coroutine is the record call["app"]: its position, the programs
\* the repository returned to the run in progress, the program being
\* scraped, whether `driver` is bound, the attempts of the run in progress
\* and how each ended, and the number of completed runs (counted up to
\* MaxRuns).
MaxRuns == 2

LifespanStart ==
    [pc |-> "set_webhook", webhook |-> FALSE, raised |-> "", calls |-> <<>>,
     supported_programs |-> <<>>, program |-> 0, driver |-> FALSE,
     attempted |-> <<>>, logged |-> <<>>, uploaded |-> <<>>, runs |-> 0]

App == call["app"]

\* The statements of lifespan itself, by position.  `await
\* website_scraper_worker.run()` is left at "run_returned", which is the
\* position of `yield`; "serving" is the application serving requests until
\* it is shut down.
lifespan(a, ok) ==
    CASE a.pc = "set_webhook" ->
            IF ok THEN [a EXCEPT !.pc = "read_all", !.webhook = TRUE,
                                 !.calls = Append(@, "set_webhook")]
            ELSE [a EXCEPT !.pc = "failed", !.raised = "set_webhook"]
      [] a.pc = "run_returned" -> [a EXCEPT !.pc = "serving"]
      [] a.pc = "serving" ->
            IF ok THEN [a EXCEPT !.pc = "close", !.webhook = FALSE,
                                 !.calls = Append(@, "delete_webhook")]
            ELSE [a EXCEPT !.pc = "failed", !.raised = "delete_webhook"]
      [] a.pc = "close" -> [a EXCEPT !.pc = "closed", !.calls = Append(@, "close")]

Lifespan ==
    /\ App.pc \in {"set_webhook", "run_returned", "serving", "close"}
    /\ \E ok \in BOOLEAN : call' = [call EXCEPT !["app"] = lifespan(App, ok)]
    /\ UNCHANGED <<store, notes, programs>>

\* The program after `a.program` in the for loop of scrap_websites; after
\* the last one scrap_websites returns and run() sleeps.
next_program(a) ==
    IF a.program < Len(a.supported_programs)
    THEN [a EXCEPT !.pc = "start_browser", !.program = a.program + 1]
    ELSE [a EXCEPT !.pc = "sleep"]

\* scrap_websites reads the catalog from the repository itself: whatever
\* read_all raises leaves scrap_websites, run() and the lifespan.
ReadAll ==
    /\ App.pc = "read_all"
    /\ \E outcome \in RepositoryOutcomes(programs) :
            call' = [call EXCEPT !["app"] =
                IF outcome = "rows"
                THEN next_program([App EXCEPT !.supported_programs = programs,
                                              !.program = 0, !.driver = FALSE,
                                              !.attempted = <<>>, !.logged = <<>>,
                                              !.uploaded = <<>>])
                ELSE [App EXCEPT !.pc = "failed", !.raised = "read_all"]]
    /\ UNCHANGED <<store, notes, programs>>

\* __website_scraping up to webdriver.Firefox(options=options): when the
\* folder or the browser cannot be made the except block logs it, and
\* `driver` was never bound.
StartBrowser ==
    /\ App.pc = "start_browser"
    /\ \E started \in BOOLEAN :
            call' = [call EXCEPT !["app"] =
                IF started
                THEN [App EXCEPT !.pc = "scrape", !.driver = TRUE,
                                 !.attempted = Append(@, App.program)]
                ELSE [App EXCEPT !.pc = "finally", !.driver = FALSE,
                                 !.attempted = Append(@, App.program),
                                 !.logged = Append(@, App.program)]]
    /\ UNCHANGED <<store, notes, programs>>

\* driver.get to the download of the study plan: selenium or file errors are
\* logged by the except block.
Scrape ==
    /\ App.pc = "scrape"
    /\ \E ok \in BOOLEAN :
            call' = [call EXCEPT !["app"] =
                IF ok THEN [App EXCEPT !.pc = "upload"]
                ELSE [App EXCEPT !.pc = "finally", !.logged = Append(@, App.program)]]
    /\ UNCHANGED <<store, notes, programs>>

\* await self.__minio_client.upload_file_to_bucket(...)
Upload ==
    /\ App.pc = "upload"
    /\ \E ok \in BOOLEAN :
            call' = [call EXCEPT !["app"] =
                IF ok THEN [App EXCEPT !.pc = "finally", !.uploaded = Append(@, App.program)]
                ELSE [App EXCEPT !.pc = "finally", !.logged = Append(@, App.program)]]
    /\ UNCHANGED <<store, notes, programs>>

\* finally: driver.close(); driver.quit().  With `driver` unbound the
\* statement raises UnboundLocalError, and a browser that is gone makes
\* close() raise: either leaves __website_scraping, the for loop, run() and
\* the lifespan.
Finally ==
    /\ App.pc = "finally"
    /\ \E closes \in BOOLEAN :
            call' = [call EXCEPT !["app"] =
                IF ~App.driver
                THEN [App EXCEPT !.pc = "failed", !.raised = "UnboundLocalError"]
                ELSE IF ~closes
                THEN [App EXCEPT !.pc = "failed", !.raised = "driver.close"]
                ELSE next_program([App EXCEPT !.driver = FALSE])]
    /\ UNCHANGED <<store, notes, programs>>

\* await asyncio.sleep(self.__interval_between_jobs), then `while True`
\* starts the next run.  run() has no other way out of the loop.
Sleep ==
    /\ App.pc = "sleep"
    /\ call' = [call EXCEPT !["app"] =
            [App EXCEPT !.pc = "read_all",
                        !.runs = IF @ < MaxRuns THEN @ + 1 ELSE @]]
    /\ UNCHANGED <<store, notes, programs>>

InitLifespan ==
    /\ store = [u \in Users |-> EmptyHash]
    /\ notes = [u \in Users |-> NoNotes]
    /\ programs \in Catalogs
    /\ call = [p \in {"app"} |-> LifespanStart]

NextLifespan ==
    \/ Lifespan
    \/ ReadAll
    \/ StartBrowser
    \/ Scrape
    \/ Upload
    \/ Finally
    \/ Sleep

SpecLifespan == InitLifespan /\ [][NextLifespan]_vars

\* The event loop runs the coroutine whenever it can take a step, and every
\* awaited call returns or raises.
SpecLifespanFair == SpecLifespan /\ WF_vars(NextLifespan)

\* -------------------------------------------------------------- properties
Done(p) == call[p].pc = "done"
Client(p) == ClientId(call[p].update)
RaisedCalls(c) == {i \in DOMAIN c.trace : c.trace[i].out = "raise"}
CallsOf(c, ops) == {i \in DOMAIN c.trace : c.trace[i].op \in ops}

\* The one result of __process_return_to_main_menu for chat `id`.
IsMainMenuResult(r, id) ==
    /\ r.chat_id = id
    /\ r.text = MENU
    /\ r.reply_markup =
        [type |-> "reply",
         keyboard |-> << <<[text |-> TEXT_QUESTION, url |-> ""]>>,
                         <<[text |-> TEXT_RECOMMENDATION, url |-> ""]>> >>]

\* C1: whatever the update and whichever collaborator calls fail, a
\* finished process_update has returned a list to its caller; no exception
\* leaves it, and at most two are raised inside it.
C1_NeverPropagates ==
    \A p \in Procs :
        Done(p) => /\ call[p].returned
                   /\ Len(call[p].raised) <= 2
                   /\ Len(call[p].result) \in 0..2

C1_Witness ==
    \E p \in Procs :
        /\ Done(p) /\ call[p].returned
        /\ call[p].function = "recommendation"
        /\ call[p].raised = <<"provide_recommendation", "send_message">>

\* C2: when the selected handler raises, the default handler runs once, and
\* if it does not raise the list returned is exactly its one main-menu
\* result (nothing the failed handler had sent is in it).
C2_HandlerFailureFallsBack ==
    \A p \in Procs :
        LET c == call[p]
            n == Len(c.trace)
        IN /\ c.phase = "except" => c.pc \in {"menu_hmset", "menu_send", "done"}
           /\ (Done(p) /\ c.function # "none" /\ Len(c.raised) = 1) =>
                /\ n >= 3
                /\ RaisedCalls(c) = {n - 2}
                /\ c.trace[n - 1] = [op |-> "hmset", id |-> Client(p),
                                     arg |-> MAIN_MENU, out |-> "ok"]
                /\ c.trace[n].op = "send_message" /\ c.trace[n].arg = MENU
                /\ c.returned
                /\ Len(c.result) = 1
                /\ IsMainMenuResult(c.result[1], Client(p))
                /\ c.result[1].ok = (c.trace[n].out = "ok")

C2_Witness ==
    \E p \in Procs :
        /\ Done(p)
        /\ call[p].function = "start_command"
        /\ call[p].raised = <<"send_message">>
        /\ \E i \in DOMAIN call[p].trace :
                call[p].trace[i].arg = GREETING /\ call[p].trace[i].out = "ok"
        /\ Len(call[p].result) = 1

\* C3: when the selected handler raises and the default handler run in its
\* place raises too, process_update returns the empty list.
C3_DoubleFailureReturnsEmpty ==
    \A p \in Procs :
        (Done(p) /\ call[p].function # "none" /\ Len(call[p].raised) >= 2) =>
            /\ call[p].returned
            /\ call[p].result = <<>>
            /\ Cardinality(RaisedCalls(call[p])) = 2

C3_Witness ==
    \E p \in Procs :
        /\ Done(p)
        /\ call[p].function = "question"
        /\ call[p].raised = <<"answer_question", "hmset">>
        /\ call[p].result = <<>>

\* C4 (as claimed): every update that is not a text message, an update
\* without a message included, ends with the one main-menu result when the
\* session store and the messaging calls succeed.
C4_UnsupportedUpdateGetsMainMenu ==
    \A p \in Procs :
        (/\ Done(p)
         /\ determine_update_type(call[p].update) # "text"
         /\ Succeed(call[p], StoreOps \cup MessagingOps)) =>
            /\ call[p].returned
            /\ Len(call[p].result) = 1
            /\ call[p].result[1].text = MENU

\* C5: /start from a user without a stored hash, every call succeeding:
\* the state left is MAIN_MENU and the list returned is the greeting, with
\* one row of one link button per program of the catalog in catalog order,
\* followed by the main-menu result.
C5_StartFromNoState ==
    \A p \in Procs :
        LET c == call[p] IN
        (/\ Done(p)
         /\ c.update.has_message /\ c.update.text = TEXT_START
         /\ c.before.hash = EmptyHash
         /\ AllSucceed(c)) =>
            /\ store[Client(p)].state = MAIN_MENU
            /\ Len(c.result) = 2
            /\ c.result[1].ok /\ c.result[1].chat_id = Client(p)
            /\ c.result[1].text = GREETING
            /\ c.result[1].reply_markup.type = "inline"
            /\ Len(c.result[1].reply_markup.keyboard) = Len(programs)
            /\ \A i \in 1..Len(programs) :
                    c.result[1].reply_markup.keyboard[i] =
                        <<[text |-> programs[i].name, url |-> programs[i].website_url]>>
            /\ c.result[2].ok /\ IsMainMenuResult(c.result[2], Client(p))

C5_Witness ==
    \E p \in Procs :
        /\ Done(p)
        /\ call[p].update.text = TEXT_START
        /\ call[p].before.hash = EmptyHash
        /\ AllSucceed(call[p])
        /\ Len(programs) = MaxPrograms
        /\ Len(call[p].result) = 2

\* C6: a text that is no trigger from a user whose stored state is
\* QUESTIONS, every call succeeding: answer_question is called exactly once
\* with that text, one result is returned, the answer, and the state is
\* still QUESTIONS, so the next such text is handled the same way.
C6_QuestionAnswered ==
    \A p \in Procs :
        LET c == call[p] IN
        (/\ Done(p)
         /\ c.update.has_message /\ c.update.text \in FreeTexts
         /\ c.before.hash.state = QUESTIONS
         /\ AllSucceed(c)) =>
            /\ Cardinality(CallsOf(c, {"answer_question"})) = 1
            /\ \A i \in CallsOf(c, {"answer_question"}) : c.trace[i].arg = c.update.text
            /\ CallsOf(c, {"provide_recommendation"}) = {}
            /\ Len(c.result) = 1
            /\ c.result[1].text \in Answers /\ c.result[1].chat_id = Client(p)
            /\ c.raised = <<>>
            /\ store[Client(p)].state = QUESTIONS

C6_Witness ==
    \E p \in Procs :
        /\ Done(p)
        /\ call[p].update.text \in FreeTexts
        /\ call[p].before.hash.state = QUESTIONS
        /\ AllSucceed(call[p])
        /\ call[p].function = "question"
        /\ Len(call[p].result) = 1

\* C7 (as claimed): any message text from a user whose stored state is
\* RECOMMENDATION, every call succeeding, creates a note with that text and
\* returns two results.
C7_AnyTextCreatesNote ==
    \A p \in Procs :
        LET c == call[p] IN
        (/\ Done(p)
         /\ c.update.has_message /\ c.update.text \in TriggerTexts \cup FreeTexts
         /\ c.before.hash.state = RECOMMENDATION
         /\ AllSucceed(c)) =>
            /\ CallsOf(c, {"create_user_specific"}) # {}
            /\ Len(c.result) = 2

\* C7 (amended): a text that is none of the four triggers from a user whose
\* stored state is RECOMMENDATION, every call succeeding: the user has one
\* more note with that text and no other change of notes, and the list
\* returned is the recommendation text followed by the message naming the
\* recommended program.
C7_FreeTextCreatesNote ==
    \A p \in Procs :
        LET c == call[p] IN
        (/\ Done(p)
         /\ c.update.has_message /\ c.update.text \in FreeTexts
         /\ c.before.hash.state = RECOMMENDATION
         /\ AllSucceed(c)) =>
            /\ notes[Client(p)] =
                    [c.before.notes EXCEPT ![c.update.text] = @ + 1]
            /\ \A u \in Users \ {Client(p)} :
                    \A i \in DOMAIN c.trace : c.trace[i].id # u
            /\ Len(c.result) = 2
            /\ c.response \in Recommendations
            /\ c.result[1].text = c.response.recommendation
            /\ c.result[2].text = RECOMMENDED \o c.response.recommended_program
            /\ c.result[1].chat_id = Client(p) /\ c.result[2].chat_id = Client(p)

C7_Witness ==
    \E p \in Procs :
        /\ Done(p)
        /\ call[p].update.text \in FreeTexts
        /\ call[p].before.hash.state = RECOMMENDATION
        /\ call[p].before.notes[call[p].update.text] = 1
        /\ AllSucceed(call[p])
        /\ notes[Client(p)][call[p].update.text] = 2
        /\ Len(call[p].result) = 2

\* C8: "Вернуться в главное меню" with the session store and the messaging
\* calls succeeding leaves the state MAIN_MENU, whatever was stored before
\* (nothing, any state, an unparseable value), the first time and again
\* when the same user sends it a second time in a row.
C8_MainMenuTwice ==
    \A p \in Procs :
        LET c == call[p] IN
        (/\ Done(p)
         /\ c.update.has_message /\ c.update.text = TEXT_MAIN_MENU
         /\ Succeed(c, StoreOps \cup MessagingOps)) =>
            /\ store[Client(p)].state = MAIN_MENU
            /\ c.function = "return_to_main_menu"
            /\ (c.previous.id = Client(p) /\ c.previous.text = TEXT_MAIN_MENU) =>
                    c.previous.state = MAIN_MENU /\ c.before.hash.state = MAIN_MENU

C8_Witness ==
    \E p \in Procs :
        /\ Done(p)
        /\ call[p].update.text = TEXT_MAIN_MENU
        /\ Succeed(call[p], StoreOps \cup MessagingOps)
        /\ call[p].previous.id = Client(p)
        /\ call[p].previous.text = TEXT_MAIN_MENU
        /\ call[p].previous.state = MAIN_MENU
        /\ store[Client(p)].state = MAIN_MENU

\* C9: a text equal to one of the four triggers selects that trigger's
\* handler whatever the stored state, and the invocation never runs a
\* state handler: no Answering call is made and no note is created.
C9_TextRoutingFirst ==
    \A p \in Procs :
        LET c == call[p] IN
        (c.pc \notin {"idle", "dropped"} /\ c.update.has_message
            /\ c.update.text \in TriggerTexts) =>
            /\ c.function \in
                {"none",
                 CASE c.update.text = TEXT_START -> "start_command"
                   [] c.update.text = TEXT_QUESTION -> "question_about_program"
                   [] c.update.text = TEXT_RECOMMENDATION -> "get_recommendation"
                   [] c.update.text = TEXT_MAIN_MENU -> "return_to_main_menu"}
            /\ (c.function = "none" /\ c.pc # "hgetall") => c.raised # <<>>
            /\ CallsOf(c, AnsweringOps \cup NotesOps) = {}
            /\ notes[Client(p)] = c.before.notes

C9_Witness ==
    \E p \in Procs :
        /\ Done(p)
        /\ call[p].update.text = TEXT_QUESTION
        /\ call[p].before.hash.state = RECOMMENDATION
        /\ call[p].function = "question_about_program"
        /\ store[Client(p)].state = QUESTIONS

\* C10: a message whose text is no trigger from a user whose stored state is
\* absent or MAIN_MENU, the session store and the messaging calls
\* succeeding: the state left is MAIN_MENU and the list returned is the one
\* main-menu result.
C10_DefaultHandler ==
    \A p \in Procs :
        LET c == call[p] IN
        (/\ Done(p)
         /\ c.update.has_message /\ c.update.text \notin TriggerTexts
         /\ c.before.hash \in {EmptyHash, [EmptyHash EXCEPT !.state = MAIN_MENU]}
         /\ Succeed(c, StoreOps \cup MessagingOps)) =>
            /\ store[Client(p)].state = MAIN_MENU
            /\ Len(c.result) = 1
            /\ c.result[1].ok /\ IsMainMenuResult(c.result[1], Client(p))
            /\ CallsOf(c, AnsweringOps \cup NotesOps \cup CatalogOps) = {}

C10_Witness ==
    \E p \in Procs :
        /\ Done(p)
        /\ call[p].update.text \in FreeTexts
        /\ call[p].before.hash = EmptyHash
        /\ Succeed(call[p], StoreOps \cup MessagingOps)
        /\ store[Client(p)].state = MAIN_MENU
        /\ Len(call[p].result) = 1

\* C11: a stored record that cannot be parsed is read as no record: the
\* resolver returns None and raises nothing, the update that found it is
\* processed to the end, and when store and messaging work the user gets a
\* reply and is left in a proper state, the main menu for any text that is
\* not a trigger.
FoundUnparseable(c) ==
    /\ c.trace # <<>>
    /\ c.trace[1] = [op |-> "hgetall", id |-> ClientId(c.update),
                     arg |-> Unparseable, out |-> "ok"]

C11_UnparseableIsNoRecord ==
    \A p \in Procs :
        LET c == call[p]
        IN FoundUnparseable(c) =>
            /\ c.state = ParseState(EmptyHash)
            /\ c.state = NoneState
            /\ c.raised # <<>> => c.raised[1] # "hgetall"
            /\ c.update.text \in TriggerTexts /\ Len(c.trace) = 1 =>
                    /\ c.raised = <<>>
                    /\ c.function = text_routing[c.update.text].handler
            /\ Done(p) /\ Succeed(c, StoreOps \cup MessagingOps) =>
                    /\ c.returned
                    /\ c.result # <<>>
                    /\ store[Client(p)].state \in States
                    /\ c.update.text \notin TriggerTexts =>
                            /\ store[Client(p)].state = MAIN_MENU
                            /\ Len(c.result) = 1
                            /\ IsMainMenuResult(c.result[1], Client(p))

C11_Witness ==
    \E p \in Procs :
        /\ Done(p)
        /\ FoundUnparseable(call[p])
        /\ call[p].update.text \in FreeTexts
        /\ Succeed(call[p], StoreOps \cup MessagingOps)
        /\ store[Client(p)].state = MAIN_MENU
        /\ call[p].before.hash.state = Unparseable

\* C12: starting from an empty store, whatever requests are served, each
\* user has no record or one record whose only field is a state of the
\* enumeration; and a write replaces what was stored: after the latest
\* successful write of a request the user's record is exactly the value
\* written (nothing after a delete).
SuccessfulWrites(c) ==
    {i \in DOMAIN c.trace : c.trace[i].op \in {"hmset", "delete"} /\ c.trace[i].out = "ok"}

LatestWrite(c) ==
    c.trace[CHOOSE i \in SuccessfulWrites(c) : \A j \in SuccessfulWrites(c) : j <= i]

C12_OneStatePerUser ==
    /\ \A u \in Users :
            /\ store[u].state \in States \cup {NoField}
            /\ ~store[u].extra
    /\ \A p \in Procs :
            SuccessfulWrites(call[p]) # {} =>
                store[Client(p)] =
                    IF LatestWrite(call[p]).op = "delete" THEN EmptyHash
                    ELSE [state |-> LatestWrite(call[p]).arg, extra |-> FALSE]

C12_Witness ==
    \E p \in Procs :
        /\ Done(p)
        /\ AllSucceed(call[p])
        /\ call[p].before.hash.state = QUESTIONS
        /\ call[p].function = "get_recommendation"
        /\ store[Client(p)] = [state |-> RECOMMENDATION, extra |-> FALSE]

\* C13: requests of different users that overlap do not touch each other.
\* In every state, each request in flight has called its collaborators for
\* its own user's id only and addressed every message to that id; that
\* user's record is what the request found, or what it wrote last; the
\* user's notes are those it found plus those it created; and the notes it
\* listed are that user's.  In every step, a record or a user's notes change
\* only by a step of a request of that user.  So what a request leaves and
\* returns is what it would have left and returned alone.
InFlight(p) == call[p].pc \notin {"idle", "verified", "rejected", "dropped"}
Sender(p) == call[p].update.from_
Created(c, t) ==
    Cardinality({i \in DOMAIN c.trace :
        c.trace[i] = [op |-> "create_user_specific", id |-> c.update.from_,
                      arg |-> t, out |-> "ok"]})

C13_OwnUserOnly ==
    \A p \in Procs :
        LET c == call[p]
        IN InFlight(p) =>
            /\ \A i \in DOMAIN c.trace : c.trace[i].id = Sender(p)
            /\ \A k \in DOMAIN c.responses : c.responses[k].chat_id = Sender(p)
            /\ \A k \in DOMAIN c.result : c.result[k].chat_id = Sender(p)
            /\ store[Sender(p)] =
                    IF SuccessfulWrites(c) = {} THEN c.before.hash
                    ELSE IF LatestWrite(c).op = "delete" THEN EmptyHash
                    ELSE [state |-> LatestWrite(c).arg, extra |-> FALSE]
            /\ notes[Sender(p)] = [t \in FreeTexts |-> c.before.notes[t] + Created(c, t)]
            /\ (\E i \in DOMAIN c.trace :
                    c.trace[i].op = "get_user_specifics" /\ c.trace[i].out = "ok")
                => c.user_specifics = read_listed(notes[Sender(p)])

C13_OwnStep ==
    \A u \in Users :
        store'[u] # store[u] \/ notes'[u] # notes[u] =>
            \E p \in Procs : InFlight(p) /\ Sender(p) = u /\ call'[p] # call[p]

C13_UsersIndependent == [](C13_OwnUserOnly) /\ [][C13_OwnStep]_vars

C13_Witness ==
    /\ Done("w1") /\ AllSucceed(call["w1"])
    /\ call["w1"].function = "get_recommendation"
    /\ store[1].state = RECOMMENDATION
    /\ call["w2"].pc = "rec_list"
    /\ Len(call["w2"].trace) < Len(call["w1"].trace)
    /\ notes[2] # NoNotes /\ notes[1] = NoNotes
    /\ store[2].state = RECOMMENDATION

\* C14: a finished process_update in which no send_message call returned
\* (a call that returns has handed the message to Telegram, whose response
\* it returns) is one whose default handler raised in the except block, the
\* call that returns the empty list; in every other finished call at least
\* one send_message returned, and a non-empty result always comes with one.
ReturnedSends(c) ==
    {i \in DOMAIN c.trace : c.trace[i].op = "send_message" /\ c.trace[i].out # "raise"}

DefaultHandlerRaised(c) ==
    c.phase = "except" /\ Len(c.raised) = 2

C14_SilentOnlyAfterDoubleFailure ==
    \A p \in Procs :
        Done(p) =>
            /\ ReturnedSends(call[p]) = {} =>
                    DefaultHandlerRaised(call[p]) /\ call[p].result = <<>>
            /\ ~DefaultHandlerRaised(call[p]) =>
                    ReturnedSends(call[p]) # {} /\ call[p].result # <<>>

C14_Witness ==
    \E p \in Procs :
        /\ Done(p)
        /\ call[p].update.has_message
        /\ call[p].update.text = TEXT_QUESTION
        /\ DefaultHandlerRaised(call[p])
        /\ call[p].raised = <<"hmset", "send_message">>
        /\ ReturnedSends(call[p]) = {}
        /\ call[p].result = <<>>

\* C15 as stated: the list a finished process_update returns is as long as
\* the sequence of messages sent during the call.
C15_OneResultPerSend ==
    \A p \in Procs :
        Done(p) => Len(call[p].result) = Cardinality(ReturnedSends(call[p]))

\* C15, amended: the list returned holds, in order, one result for each
\* message sent by the handler that ran to its end (the selected handler,
\* or the default handler in the except block), the interim "please wait"
\* message excepted; what a handler sent before it raised is not in the
\* list.  So the list is never longer than the sequence of sends.
InterimTexts == {WAIT_ANSWER, WAIT_PROGRAM}
IsListedSend(e) == e.op = "send_message" /\ e.arg \notin InterimTexts
LastRaise(c) ==
    IF RaisedCalls(c) = {} THEN 0
    ELSE CHOOSE i \in RaisedCalls(c) : \A j \in RaisedCalls(c) : j <= i
ListedSends(c) == SelectSeq(SubSeq(c.trace, LastRaise(c) + 1, Len(c.trace)), IsListedSend)

C15_ResultsOfCompletedHandler ==
    \A p \in Procs :
        Done(p) =>
            /\ Len(call[p].result) = Len(ListedSends(call[p]))
            /\ \A k \in DOMAIN call[p].result :
                    /\ call[p].result[k].text = ListedSends(call[p])[k].arg
                    /\ call[p].result[k].ok = (ListedSends(call[p])[k].out = "ok")
                    /\ call[p].result[k].chat_id = ListedSends(call[p])[k].id
            /\ Len(call[p].result) <= Cardinality(ReturnedSends(call[p]))

C15_Witness ==
    \E p \in Procs :
        /\ Done(p)
        /\ call[p].function = "recommendation"
        /\ AllSucceed(call[p])
        /\ Cardinality(ReturnedSends(call[p])) = 3
        /\ Len(call[p].result) = 2

\* C16: a request whose update has the content of the request before it
\* (the same update delivered again, or another update with the same text
\* of the same user) is processed in full again.  With store and messaging
\* working, a trigger text leaves the state the first delivery left; in
\* state RECOMMENDATION each delivery of a free text adds one more note with
\* that text.
RepeatsPrevious(c) ==
    /\ c.update.has_message
    /\ c.previous.id = ClientId(c.update)
    /\ c.previous.text = c.update.text

C16_RedeliveryProcessedAgain ==
    \A p \in Procs :
        LET c == call[p]
        IN Done(p) /\ RepeatsPrevious(c) =>
            /\ c.trace # <<>> /\ c.trace[1].op = "hgetall"
            /\ Succeed(c, StoreOps \cup MessagingOps) =>
                    /\ c.result # <<>>
                    /\ c.update.text \in TriggerTexts =>
                            /\ store[Client(p)].state = c.previous.state
                            /\ c.function = c.previous.function
            /\ c.previous.function = "recommendation" /\ c.previous.all_ok
                    /\ Succeed(c, StoreOps \cup NotesOps) =>
                    /\ c.function = "recommendation"
                    /\ c.previous.notes[c.update.text] >= 1
                    /\ notes[Client(p)][c.update.text] = c.previous.notes[c.update.text] + 1

C16_Witness ==
    \E p \in Procs :
        /\ Done(p)
        /\ RepeatsPrevious(call[p])
        /\ call[p].update.update_id = call[p].previous.update_id
        /\ call[p].previous.function = "recommendation"
        /\ call[p].function = "recommendation"
        /\ AllSucceed(call[p]) /\ call[p].previous.all_ok
        /\ notes[Client(p)][call[p].update.text] = 2

\* C17: a catalog without rows is the empty list, not an error: the
\* service turns the repository's EmptyResult into [], for the notes of a
\* user as well, and /start then completes in the try block with a
\* greeting that has no link button, followed by the main menu.  Any other
\* repository error is raised to the handler.
C17_EmptyCatalogIsEmptyList ==
    /\ get_programs("EmptyResult", <<>>) = [raised |-> FALSE, value |-> <<>>]
    /\ get_user_specifics("EmptyResult", <<>>) = [raised |-> FALSE, value |-> <<>>]
    /\ \A rows \in Catalogs :
            get_programs("error", rows).raised /\ get_user_specifics("error", rows).raised
    /\ \A p \in Procs :
        LET c == call[p]
        IN /\ \A i \in DOMAIN c.trace :
                c.trace[i].op \in CatalogOps \cup {"get_user_specifics"} =>
                    /\ c.trace[i].arg = "EmptyResult" => c.trace[i].out = "ok"
                    /\ c.trace[i].arg = "error" =>
                            c.trace[i].out = "raise" /\ c.raised # <<>>
           /\ c.trace # <<>> /\ c.trace[Len(c.trace)].op = "get_programs"
                /\ c.trace[Len(c.trace)].arg = "EmptyResult" =>
                    /\ c.supported_programs = <<>>
                    /\ c.phase = "try" => c.raised = <<>>
           /\ Done(p) /\ c.function = "start_command" /\ programs = <<>>
                /\ AllSucceed(c) =>
                    /\ c.phase = "try" /\ c.raised = <<>>
                    /\ Len(c.result) = 2
                    /\ c.result[1].text = GREETING
                    /\ c.result[1].reply_markup = [type |-> "inline", keyboard |-> <<>>]
                    /\ IsMainMenuResult(c.result[2], Client(p))

C17_Witness ==
    \E p \in Procs :
        /\ Done(p)
        /\ call[p].function = "start_command"
        /\ programs = <<>>
        /\ AllSucceed(call[p])
        /\ \E i \in DOMAIN call[p].trace :
                call[p].trace[i] = [op |-> "get_programs", id |-> Client(p),
                                    arg |-> "EmptyResult", out |-> "ok"]
        /\ Len(call[p].result) = 2

NextStateOf ==
    [f \in {"start_command", "return_to_main_menu", "question_about_program",
            "get_recommendation"} |->
        CASE f = "question_about_program" -> QUESTIONS
          [] f = "get_recommendation" -> RECOMMENDATION
          [] OTHER -> MAIN_MENU]

SendsInTry(c) ==
    {i \in DOMAIN c.trace :
        /\ c.trace[i].op = "send_message"
        /\ \A j \in RaisedCalls(c) : i <= j}

C19_WriteBeforeSend ==
    \A p \in Procs :
        LET c == call[p]
        IN c.function \in DOMAIN NextStateOf =>
            /\ \A i \in SendsInTry(c) :
                    \E j \in 1..(i - 1) :
                        c.trace[j] = [op |-> "hmset", id |-> Client(p),
                                      arg |-> NextStateOf[c.function], out |-> "ok"]
            /\ c.phase = "except" /\ c.pc = "menu_hmset" /\ c.raised = <<"send_message">> =>
                    store[Client(p)].state = NextStateOf[c.function]

C19_Witness ==
    \E p \in Procs :
        /\ call[p].function = "get_recommendation"
        /\ call[p].phase = "except" /\ call[p].pc = "menu_hmset"
        /\ call[p].raised = <<"send_message">>
        /\ call[p].before.hash.state = MAIN_MENU
        /\ store[Client(p)].state = RECOMMENDATION

\* C20 as stated: the recommendation handler creates the note, lists the
\* notes, fetches the catalog, sends the interim "please wait" message and
\* only then calls provide_recommendation: whenever provide_recommendation
\* has been called, those four calls precede it in that order.
C20_WaitBeforeRecommendation ==
    \A p \in Procs :
        LET c == call[p]
        IN \A i \in DOMAIN c.trace :
            c.trace[i].op = "provide_recommendation" =>
                /\ i >= 5
                /\ c.trace[i - 4].op = "create_user_specific"
                /\ c.trace[i - 3].op = "get_user_specifics"
                /\ c.trace[i - 2].op = "get_programs"
                /\ c.trace[i - 1].op = "send_message"
                /\ c.trace[i - 1].arg = WAIT_PROGRAM

\* C21 as stated: for a user without a stored state and a text that is no
\* trigger, the routing step selects the default handler and raises
\* nothing, so the except block of process_update is not entered by it.
RoutedWithoutState(c) ==
    /\ c.pc \notin {"idle", "verified", "rejected", "hgetall"}
    /\ determine_update_type(c.update) = "text"
    /\ c.update.text \notin TriggerTexts
    /\ c.trace # <<>> /\ c.trace[1].op = "hgetall" /\ c.trace[1].out = "ok"
    /\ c.state = NoneState

C21_DefaultSelectedByRouting ==
    \A p \in Procs :
        RoutedWithoutState(call[p]) =>
            /\ call[p].function = "return_to_main_menu"
            /\ \A k \in DOMAIN call[p].raised : call[p].raised[k] # "AttributeError"

\* C22: recovery has one level.  Once the except block is entered, the
\* calls made are those of one run of the default handler, hmset of
\* MAIN_MENU and then the menu message, each at most once; no call of the
\* handler that failed is made again; and when the default handler raises
\* the request ends with the empty list, nothing being attempted after it.
CallsInTry(c) ==
    IF c.raised[1] = "ValueError" THEN 0
    ELSE IF c.raised[1] = "AttributeError" THEN 1
    ELSE CHOOSE i \in RaisedCalls(c) : \A j \in RaisedCalls(c) : i <= j

RecoveryCalls(c) == SubSeq(c.trace, CallsInTry(c) + 1, Len(c.trace))

C22_SingleLevelRecovery ==
    \A p \in Procs :
        LET c == call[p]
        IN /\ c.phase = "try" /\ c.pc # "rejected" => c.raised = <<>>
           /\ c.phase = "except" =>
                /\ Len(c.raised) \in {1, 2}
                /\ Len(RecoveryCalls(c)) <= 2
                /\ Len(RecoveryCalls(c)) >= 1 =>
                        /\ RecoveryCalls(c)[1].op = "hmset"
                        /\ RecoveryCalls(c)[1].arg = MAIN_MENU
                /\ Len(RecoveryCalls(c)) = 2 =>
                        /\ RecoveryCalls(c)[1].out = "ok"
                        /\ RecoveryCalls(c)[2].op = "send_message"
                        /\ RecoveryCalls(c)[2].arg = MENU
                /\ Len(c.raised) = 2 => c.pc = "done" /\ c.result = <<>>

C22_Witness ==
    \E p \in Procs :
        /\ Done(p)
        /\ call[p].function = "question"
        /\ call[p].raised = <<"answer_question", "send_message">>
        /\ Len(RecoveryCalls(call[p])) = 2
        /\ call[p].result = <<>>

\* C23: the default handler calls the session store and the messaging
\* client only, as the selected handler and in the except block alike; so
\* for an update that carries a message, when every store and messaging
\* call succeeds the list returned is not empty, whichever catalog, notes
\* or answering call failed.
C23_DefaultNeedsStoreAndMessaging ==
    \A p \in Procs :
        LET c == call[p]
        IN /\ c.function = "return_to_main_menu" /\ c.phase = "try" =>
                \A i \in DOMAIN c.trace : c.trace[i].op \in StoreOps \cup MessagingOps
           /\ c.phase = "except" =>
                \A i \in DOMAIN RecoveryCalls(c) :
                    RecoveryCalls(c)[i].op \in {"hmset", "send_message"}
           /\ Done(p) /\ c.update.has_message
                /\ Succeed(c, StoreOps \cup MessagingOps) =>
                    c.result # <<>>

C23_Witness ==
    \E p \in Procs :
        /\ Done(p)
        /\ call[p].function = "recommendation"
        /\ call[p].raised = <<"provide_recommendation">>
        /\ Succeed(call[p], StoreOps \cup MessagingOps)
        /\ Len(call[p].result) = 1
        /\ IsMainMenuResult(call[p].result[1], Client(p))

\* C24 as stated: /start writes MAIN_MENU without deleting the old record
\* first, so a field other than "state" that the old record had is still
\* there after /start.
C24_StartKeepsOtherFields ==
    \A p \in Procs :
        LET c == call[p]
        IN Done(p) /\ c.function = "start_command" /\ AllSucceed(c)
                /\ c.before.hash.extra =>
            /\ store[Client(p)].extra
            /\ \A i \in DOMAIN c.trace : c.trace[i].op # "delete"

\* C24, amended: /start deletes the user's record and then writes MAIN_MENU
\* into a fresh one: its first store call after the state was read is the
\* delete, the hmset follows it, and when the store calls succeed the
\* record afterwards is the state MAIN_MENU and nothing else.
C24_StartDeletesRecord ==
    \A p \in Procs :
        LET c == call[p]
        IN c.function = "start_command" =>
            /\ Len(c.trace) >= 2 => c.trace[2].op = "delete"
            /\ Len(c.trace) >= 3 /\ c.trace[2].out = "ok" =>
                    c.trace[3].op = "hmset" /\ c.trace[3].arg = MAIN_MENU
            /\ Done(p) /\ Succeed(c, StoreOps) =>
                    store[Client(p)] = [state |-> MAIN_MENU, extra |-> FALSE]

C24_Witness ==
    \E p \in Procs :
        /\ Done(p)
        /\ call[p].function = "start_command"
        /\ AllSucceed(call[p])
        /\ call[p].before.hash = [state |-> RECOMMENDATION, extra |-> TRUE]
        /\ store[Client(p)] = [state |-> MAIN_MENU, extra |-> FALSE]

\* C25: no handler swallows the failure of a collaborator.  When a store,
\* catalog, notes, answering or messaging call of the selected handler has
\* raised, that handler has not returned: the except block is running or
\* has run, what the handler had collected is dropped, and the finished
\* request returns the one main-menu result of the default handler or the
\* empty list.
C25_FailuresAreNotSwallowed ==
    \A p \in Procs :
        LET c == call[p]
        IN RaisedCalls(c) # {} =>
            /\ c.phase = "except"
            /\ c.pc \in {"menu_hmset", "menu_send", "done"}
            /\ c.pc # "done" => c.responses = <<>>
            /\ Done(p) =>
                    \/ c.result = <<>>
                    \/ /\ Len(c.result) = 1
                       /\ IsMainMenuResult(c.result[1], Client(p))

C25_Witness ==
    \E p \in Procs :
        /\ Done(p)
        /\ call[p].function = "start_command"
        /\ call[p].raised = <<"send_message">>
        /\ \E i \in DOMAIN call[p].trace :
                /\ call[p].trace[i].op = "send_message"
                /\ call[p].trace[i].arg = GREETING
                /\ call[p].trace[i].out = "ok"
        /\ Len(call[p].result) = 1
        /\ IsMainMenuResult(call[p].result[1], Client(p))

\* C26: an update whose message has no text (a photo, a sticker) is
\* rejected by the classification before the state is read; the ValueError
\* is absorbed, and with store and messaging working the request ends in
\* state MAIN_MENU and returns the one main-menu result, whatever the state
\* stored before.
C26_MessageWithoutText ==
    \A p \in Procs :
        LET c == call[p]
        IN c.pc \notin {"idle", "verified", "rejected"}
                /\ c.update.has_message /\ c.update.text \in {NoText, ""} =>
            /\ c.raised # <<>> /\ c.raised[1] = "ValueError"
            /\ c.function = "none"
            /\ \A i \in DOMAIN c.trace : c.trace[i].op \in {"hmset", "send_message"}
            /\ Done(p) /\ Succeed(c, StoreOps \cup MessagingOps) =>
                    /\ c.raised = <<"ValueError">>
                    /\ c.returned
                    /\ store[Client(p)].state = MAIN_MENU
                    /\ Len(c.result) = 1
                    /\ IsMainMenuResult(c.result[1], Client(p))

C26_Witness ==
    \E p \in Procs :
        /\ Done(p)
        /\ call[p].update.has_message /\ call[p].update.text = NoText
        /\ Succeed(call[p], StoreOps \cup MessagingOps)
        /\ call[p].before.hash.state = QUESTIONS
        /\ store[Client(p)].state = MAIN_MENU
        /\ Len(call[p].result) = 1

\* C27: within one request every session store call, every notes call and
\* every send_message carries one and the same identifier: the id of the
\* message's sender when it has one, the id of the chat otherwise; the
\* results returned are addressed to it.
SenderOrChat(update) == IF update.from_ = NoId THEN update.chat ELSE update.from_

C27_OneIdentifier ==
    \A p \in Procs :
        LET c == call[p]
        IN InFlight(p) /\ c.update.has_message =>
            /\ \A i \in DOMAIN c.trace :
                    c.trace[i].op \in StoreOps \cup NotesOps \cup MessagingOps =>
                        c.trace[i].id = SenderOrChat(c.update)
            /\ \A k \in DOMAIN c.result : c.result[k].chat_id = SenderOrChat(c.update)
            /\ \A k \in DOMAIN c.responses :
                    c.responses[k].chat_id = SenderOrChat(c.update)

C27_Witness ==
    \E p \in Procs :
        /\ Done(p)
        /\ call[p].update.from_ = 2 /\ call[p].update.chat = 1
        /\ call[p].function = "recommendation"
        /\ AllSucceed(call[p])
        /\ notes[2] # NoNotes /\ notes[1] = NoNotes
        /\ store[2].state = RECOMMENDATION
        /\ \A k \in DOMAIN call[p].result : call[p].result[k].chat_id = 2

\* C28: the notes handed to provide_recommendation are all the notes
\* stored for the requesting user and no others: the note just created from
\* the message is among them, they are one more than the user had before
\* the request, and a note of another user is never among them.
BagSize(bag) ==
    LET size[i \in 0..Len(FreeTextsOrdered)] ==
            IF i = 0 THEN 0 ELSE size[i - 1] + bag[FreeTextsOrdered[i]]
    IN size[Len(FreeTextsOrdered)]

Occurrences(seq, t) == Cardinality({k \in DOMAIN seq : seq[k] = t})

ArgumentsBuilt(c) ==
    /\ c.function = "recommendation"
    /\ c.phase = "try"
    /\ c.pc \in {"rec_recommend", "rec_send_wait", "rec_send_text", "rec_send_program",
                  "done"}

C28_AllNotesOfTheUser ==
    \A p \in Procs :
        LET c == call[p]
        IN ArgumentsBuilt(c) =>
            /\ \A t \in FreeTexts :
                    Occurrences(c.specifics, t) = notes[SenderOrChat(c.update)][t]
            /\ Len(c.specifics) = BagSize(c.before.notes) + 1
            /\ Occurrences(c.specifics, c.update.text) = c.before.notes[c.update.text] + 1
            /\ c.before.notes = [t \in FreeTexts |->
                    IF t = c.update.text THEN notes[SenderOrChat(c.update)][t] - 1
                    ELSE notes[SenderOrChat(c.update)][t]]

C28_Witness ==
    \E p \in Procs :
        /\ call[p].pc = "rec_send_wait"
        /\ ArgumentsBuilt(call[p])
        /\ SenderOrChat(call[p].update) = 2
        /\ notes[1] # NoNotes
        /\ Len(call[p].specifics) = 1
        /\ call[p].specifics[1] = call[p].update.text

\* C29: in state RECOMMENDATION a free text processed with every
\* collaborator succeeding leaves the state RECOMMENDATION and adds exactly
\* one note; the request that follows such a one, or that follows the
\* entry into the state, finds the notes and the state it left, so each
\* recommendation in a row is computed from one more note than the one
\* before it, the n-th from n more than the user had on entering.
FollowsInRecommendation(c) ==
    /\ c.previous.id = ClientId(c.update)
    /\ c.previous.all_ok
    /\ c.previous.function \in {"get_recommendation", "recommendation"}
    /\ c.update.text \notin TriggerTexts

C29_RecommendationAccumulates ==
    \A p \in Procs :
        LET c == call[p]
        IN /\ Done(p) /\ c.function = "recommendation" /\ AllSucceed(c) =>
                /\ store[Client(p)].state = RECOMMENDATION
                /\ notes[Client(p)] =
                        [c.before.notes EXCEPT ![c.update.text] = @ + 1]
                /\ Len(c.specifics) = BagSize(c.before.notes) + 1
           /\ Done(p) /\ FollowsInRecommendation(c) /\ AllSucceed(c) =>
                /\ c.function = "recommendation"
                /\ c.before.hash.state = RECOMMENDATION
                /\ c.before.notes = c.previous.notes
                /\ Len(c.specifics) = BagSize(c.previous.notes) + 1

C29_Witness ==
    \E p \in Procs :
        /\ Done(p)
        /\ AllSucceed(call[p])
        /\ FollowsInRecommendation(call[p])
        /\ call[p].previous.function = "recommendation"
        /\ Len(call[p].specifics) = 2
        /\ store[Client(p)].state = RECOMMENDATION

\* C30: when process_update has returned a list that is not empty, the
\* user has a record with a state of the enumeration: the first request
\* that is answered creates it, be it /start or any other message.
C30_AnsweredUserHasState ==
    \A p \in Procs :
        Done(p) /\ call[p].result # <<>> =>
            /\ call[p].update.has_message
            /\ store[Client(p)] # EmptyHash
            /\ store[Client(p)].state \in States

C30_Witness ==
    \E p \in Procs :
        /\ Done(p)
        /\ call[p].before.hash = EmptyHash
        /\ call[p].update.text \in FreeTexts
        /\ call[p].result # <<>>
        /\ store[Client(p)] = [state |-> MAIN_MENU, extra |-> FALSE]

\* C31: when the selected handler raised and the default handler then ran
\* to its end, the stored state is MAIN_MENU whatever it was.  So a user in
\* QUESTIONS or RECOMMENDATION whose request failed in the catalog, notes or
\* answering call is in MAIN_MENU afterwards, and the free text they send
\* next is answered with the main menu: it is not asked as a question and
\* not stored as a note.
Recovered(c) ==
    /\ c.phase = "except" /\ Len(c.raised) = 1
    /\ c.pc = "done"

PreviousFailedInState(c) ==
    /\ c.previous.function \in {"question", "recommendation"}
    /\ ~c.previous.all_ok
    /\ c.previous.id = ClientId(c.update)
    /\ c.update.text \notin TriggerTexts

C31_RecoveryLeavesMainMenu ==
    \A p \in Procs :
        LET c == call[p]
        IN /\ Recovered(c) /\ c.function # "none" =>
                /\ store[Client(p)].state = MAIN_MENU
                /\ Len(c.result) = 1 /\ IsMainMenuResult(c.result[1], Client(p))
           /\ InFlight(p) /\ PreviousFailedInState(c) =>
                /\ c.previous.state = MAIN_MENU
                /\ c.before.hash.state = MAIN_MENU
                /\ c.function \in {"none", "return_to_main_menu"}
                /\ \A i \in DOMAIN c.trace :
                        c.trace[i].op \notin NotesOps \cup AnsweringOps

C31_Witness ==
    \E p \in Procs :
        /\ Done(p)
        /\ PreviousFailedInState(call[p])
        /\ call[p].previous.function = "question"
        /\ call[p].function = "return_to_main_menu"
        /\ Len(call[p].result) = 1
        /\ IsMainMenuResult(call[p].result[1], Client(p))
        /\ store[Client(p)].state = MAIN_MENU

\* C32: in the recommendation handler, once the note has been created the
\* failure of a later step does not remove it: from the creation on, through
\* the except block and after process_update has returned, the user has one
\* note more of the message's text than before the request; the next request
\* finds the notes the failed one left; and every recommendation is asked
\* with all the notes stored for the user.
NoteCreated(c) ==
    \E i \in DOMAIN c.trace :
        c.trace[i].op = "create_user_specific" /\ c.trace[i].out = "ok"

C32_NoteOutlivesFailure ==
    \A p \in Procs :
        LET c == call[p]
        IN /\ InFlight(p) /\ NoteCreated(c) =>
                \A t \in FreeTexts :
                    notes[Client(p)][t] =
                        c.before.notes[t] + (IF t = c.update.text THEN 1 ELSE 0)
           /\ InFlight(p) /\ c.previous.id = Client(p)
                /\ c.previous.function = "recommendation" /\ ~c.previous.all_ok =>
                \A t \in FreeTexts :
                    /\ c.before.notes[t] = c.previous.notes[t]
                    /\ notes[Client(p)][t] >= c.previous.notes[t]
           /\ ArgumentsBuilt(c) =>
                \A t \in FreeTexts : Occurrences(c.specifics, t) = notes[Client(p)][t]

C32_Witness ==
    \E p \in Procs :
        /\ Done(p)
        /\ call[p].function = "recommendation"
        /\ NoteCreated(call[p])
        /\ call[p].raised = <<"provide_recommendation">>
        /\ notes[Client(p)][call[p].update.text] = call[p].before.notes[call[p].update.text] + 1

\* C33: the notes of a user never shrink.  No step removes a note, /start
\* and the return to the main menu included; a user's notes change only in
\* the step of the recommendation handler in which create_user_specific
\* succeeds, for that request's user, by exactly one note of the message's
\* text; every other request leaves the notes as it found them.
CreatedBy(c, t) ==
    Cardinality({i \in DOMAIN c.trace :
        /\ c.trace[i].op = "create_user_specific"
        /\ c.trace[i].arg = t
        /\ c.trace[i].out = "ok"})

C33_NotesAsCreated ==
    \A p \in Procs :
        LET c == call[p]
        IN InFlight(p) /\ c.update.has_message =>
            /\ \A t \in FreeTexts :
                    notes[Client(p)][t] = c.before.notes[t] + CreatedBy(c, t)
            /\ c.function # "recommendation" => notes[Client(p)] = c.before.notes
            /\ \A t \in FreeTexts : CreatedBy(c, t) <= 1

C33_NotesStep ==
    \A u \in Users :
        /\ \A t \in FreeTexts : notes'[u][t] >= notes[u][t]
        /\ notes'[u] # notes[u] =>
            \E p \in Procs :
                /\ call[p].pc = "rec_create"
                /\ call[p].function = "recommendation"
                /\ Client(p) = u
                /\ NoteCreated(call'[p])
                /\ notes'[u] = [notes[u] EXCEPT ![call[p].update.text] = @ + 1]

C33_NotesOnlyGrow == [](C33_NotesAsCreated) /\ [][C33_NotesStep]_vars

C33_Witness ==
    \E p \in Procs :
        /\ Done(p)
        /\ call[p].function = "start_command"
        /\ AllSucceed(call[p])
        /\ BagSize(notes[Client(p)]) = 1
        /\ notes[Client(p)] = call[p].before.notes

\* C34: the answering service is called only from the two state handlers.
\* A request calls answer_question only if the state it read is QUESTIONS
\* and its text is no trigger text, and provide_recommendation only if the
\* state it read is RECOMMENDATION and its text is no trigger text; a request
\* that read no state, an unparseable record or MAIN_MENU calls neither.
AnsweringCalls(c) == {i \in DOMAIN c.trace : c.trace[i].op \in AnsweringOps}

StateOfCall(op) == IF op = "answer_question" THEN QUESTIONS ELSE RECOMMENDATION

C34_AnsweringFromStateHandlers ==
    \A p \in Procs :
        LET c == call[p]
        IN InFlight(p) =>
            /\ \A i \in AnsweringCalls(c) :
                    /\ ~c.state.is_none
                    /\ c.state.state = StateOfCall(c.trace[i].op)
                    /\ c.before.hash.state = StateOfCall(c.trace[i].op)
                    /\ c.update.text \notin TriggerTexts
                    /\ c.function = state_routing[c.state.state].handler
            /\ c.state.is_none \/ c.state.state \notin {QUESTIONS, RECOMMENDATION} =>
                    AnsweringCalls(c) = {}

C34_Witness ==
    \E p \in Procs :
        /\ Done(p)
        /\ call[p].state.state = RECOMMENDATION
        /\ \E i \in AnsweringCalls(call[p]) :
                call[p].trace[i] = [op |-> "provide_recommendation", id |-> Client(p),
                                    arg |-> "", out |-> "ok"]

\* C35: when two process_update calls for the same user overlap, the state
\* stored once both have returned is the state some sequential processing
\* of the same two updates leaves: with every awaited call succeeding, it
\* is what serving one update and then the other, in one of the two orders,
\* leaves from a record the two requests started with.
\* (SequentialState is the state one request served alone leaves; the
\* requests served alone agree with it, see C35_ServedAlone.)
SequentialState(s, update) ==
    LET function ==
            IF determine_update_type(update) = "text"
            THEN process_message_update(ParseState([state |-> s, extra |-> FALSE]),
                                        update.text)
            ELSE "ValueError"
    IN CASE function \in {"question", "recommendation"} -> s
         [] function = "question_about_program" -> QUESTIONS
         [] function = "get_recommendation" -> RECOMMENDATION
         [] OTHER -> MAIN_MENU

SequentialStates(s, first, second) ==
    {SequentialState(SequentialState(s, first), second),
     SequentialState(SequentialState(s, second), first)}

C35_ServedAlone ==
    \A p \in Procs :
        Done(p) /\ AllSucceed(call[p]) /\ call[p].update.has_message =>
            store[Client(p)].state =
                SequentialState(call[p].before.hash.state, call[p].update)

C35_FinalStateIsSequential ==
    (\A p \in Procs : Done(p) /\ AllSucceed(call[p])) =>
        \E p \in Procs :
            store[1].state \in SequentialStates(call[p].before.hash.state,
                                                call["w1"].update, call["w2"].update)

\* C36: a request body that fails validation against Update is dropped
\* silently: the route returns without calling process_update, so the
\* request reads and writes no state, sends no message and raises nothing;
\* process_update is only ever called with a body that validates.
C36_InvalidPayloadDropped ==
    \A p \in Procs :
        LET c == call[p]
        IN /\ c.pc = "dropped" =>
                /\ c.update \in InvalidPayloads
                /\ c.trace = <<>> /\ c.responses = <<>> /\ c.result = <<>>
                /\ c.raised = <<>> /\ c.function = "none"
           /\ c.update \in InvalidPayloads => c.pc = "dropped"
           /\ InFlight(p) => c.update.update_id \in UpdateIds

C36_Witness ==
    \E p \in Procs :
        /\ call[p].pc = "dropped"
        /\ call[p].update.has_message /\ call[p].update.text = TEXT_START
        /\ call[p].trace = <<>>
        /\ store[1].state = QUESTIONS

\* C37: startup eventually reaches the serving point: once set_webhook has
\* returned, the lifespan reaches its yield (the application serves updates
\* while the scraper worker runs).
C37_StartupReachesServing ==
    (App.webhook /\ App.pc # "failed") ~> (App.pc \in {"serving", "failed"})

\* C38: in one run of scrap_websites every program the repository returned
\* is attempted exactly once, in the order returned, and a failure while
\* scraping a program, the failure to start the browser included, is logged
\* and neither keeps the remaining programs from being attempted nor ends
\* the worker loop: the loop is only ever left by what set_webhook or
\* read_all raised.
InOrder(n) == [i \in 1..n |-> i]

C38_FailureIsContained ==
    /\ App.pc = "sleep" => App.attempted = InOrder(Len(App.supported_programs))
    /\ App.pc \in {"start_browser", "scrape", "upload", "finally"} =>
            App.attempted \in {InOrder(App.program), InOrder(App.program - 1)}
    /\ App.pc = "failed" => App.raised \in {"set_webhook", "read_all"}
====
